---- MODULE Spec2Model ----
(***************************************************************************)
(* Micro-freelance marketplace: the task / bid / milestone state machine   *)
(* of the backend routes (bids.ts, milestones.ts, tasks.ts) and the chat   *)
(* coordinator (socket/index.ts).                                          *)
(*                                                                         *)
(* Every route handler is an async function.  Each `await` on a prisma     *)
(* call is a point where other handlers run, so a handler is a sequence of *)
(* atomic steps, one per database call, with the values it read kept in    *)
(* the handler's locals (the slot record).  The database is PostgreSQL at  *)
(* its default READ COMMITTED isolation: a statement sees what is          *)
(* committed when it runs, a transaction's writes become visible together  *)
(* at its commit.                                                          *)
(***************************************************************************)
EXTENDS Integers, Sequences, FiniteSets, TLC

\* ---------------------------------------------------------------- bounds
MaxReq == 2          \* handlers in flight at the same time
MaxBids == 3         \* Bid rows ever inserted
MaxMilestones == 2   \* Milestone rows ever inserted
MaxMessages == 2     \* Message rows ever inserted
MaxNotifications == 10  \* Notification rows ever inserted
MaxEmitted == 8      \* entries ever in the emit log, for the chat events
MaxHistory == 52     \* Message rows of the chat when the history is loaded

\* ------------------------------------------------------- users and roles
Clients == {"c1", "c2"}
Freelancers == {"f1", "f2"}
Users == Clients \cup Freelancers
TaskIds == {"t1"}
Conns == {"k1", "k2"}    \* socket ids
Slots == 1..MaxReq

UserRole(u) == IF u \in Clients THEN "client" ELSE "freelancer"

\* HTTP status codes of the responses
OK == 200
Created == 201
InvalidState == 400
Forbidden == 403
NotFound == 404
Conflict == 409
InternalError == 500

VARIABLES
  tasks,          \* Task table: taskId -> [clientId, status], for existing tasks
  bids,           \* Bid table: sequence of [taskId, freelancerId, status]; id = index
  milestones,     \* Milestone table: sequence of [taskId, status]; id = index
  notifications,  \* Notification table: sequence of [userId, kind, task]; id = index
  messages,       \* Message table: sequence of [taskId, senderId]
  sockets,        \* live connections: socket -> [user, rooms] (rooms it has joined)
  emitted,        \* log of the server's socket.io emits, with the sockets reached
  reqs            \* handlers in flight: slot -> locals and position

dbvars == <<tasks, bids, milestones, notifications, messages>>
vars == <<tasks, bids, milestones, notifications, messages, sockets, emitted, reqs>>

\* ------------------------------------------------------------- helpers
Idle ==
  [op |-> "idle", pc |-> "idle", caller |-> "none", sock |-> "none", task |-> "none",
   id |-> 0, peer |-> "none", tstatus |-> "none", cnt |-> 0, nid |-> 0, resp |-> 0]

SeqIds(s) == 1..Len(s)

UserRoom(u) == <<"user", u>>
TaskRoom(t) == <<"task", t>>
\* socket.io puts every socket in a room of its own id; socket.emit targets it
SidRoom(c) == <<"sid", c>>

\* sockets currently in one of the rooms
InRooms(rs) == {c \in DOMAIN sockets : (sockets[c].rooms \cup {SidRoom(c)}) \cap rs # {}}

\* one entry of the emit log: the event, the rooms addressed, the sockets that
\* were in them when the emit ran, and the payload (row id, task, user, text,
\* and for load_messages the ids of the message rows sent)
Entry(ev, rs, rcpt, nid, t, u, data) ==
  [ev |-> ev, rooms |-> rs, rcpt |-> rcpt, nid |-> nid, task |-> t, user |-> u, data |-> data,
   ids |-> <<>>]

\* io.to(rooms).emit(ev, payload)
Emit(log, rs, ev, nid, t) == Append(log, Entry(ev, rs, InRooms(rs), nid, t, "none", ""))

\* socket.emit('error', text): to the one socket, if it is still connected
EmitError(log, c, t, text) ==
  Append(log, Entry("error", {SidRoom(c)}, InRooms({SidRoom(c)}), 0, t, "none", text))

\* prisma.notification.create
NotificationCreate(u, kind, t) == Append(notifications, [userId |-> u, kind |-> kind, task |-> t])

\* bids: { where: { status: "accepted" } } of a task, in id order
AcceptedBids(t) == {i \in SeqIds(bids) : bids[i].taskId = t /\ bids[i].status = "accepted"}

\* a new handler takes the first free slot (slots are interchangeable)
Free(s) == reqs[s].pc = "idle" /\ \A o \in Slots : o < s => reqs[o].pc # "idle"

Respond(s, code) == [reqs EXCEPT ![s].pc = "done", ![s].resp = code]

\* ----------------------------------------------------------------- Init
Init ==
  /\ tasks = <<>>
  /\ bids = <<>>
  /\ milestones = <<>>
  /\ notifications = <<>>
  /\ messages = <<>>
  /\ sockets = <<>>
  /\ emitted = <<>>
  /\ reqs = [s \in Slots |-> Idle]

\* the response has been sent; the handler is gone
Retire(s) ==
  /\ reqs[s].pc = "done"
  /\ reqs' = [reqs EXCEPT ![s] = Idle]
  /\ UNCHANGED <<tasks, bids, milestones, notifications, messages, sockets, emitted>>

\* ------------------------------------------------------ POST /api/tasks
createTask(s, u, t) ==
  /\ Free(s)
  /\ t \notin DOMAIN tasks
  /\ IF UserRole(u) # "client"
       THEN /\ reqs' = [reqs EXCEPT ![s] = [Idle EXCEPT !.op = "createTask", !.pc = "done",
                                                     !.caller = u, !.resp = Forbidden]]
            /\ UNCHANGED tasks
       ELSE /\ tasks' = [x \in DOMAIN tasks \cup {t} |->
                           IF x = t THEN [clientId |-> u, status |-> "open"] ELSE tasks[x]]
            /\ reqs' = [reqs EXCEPT ![s] = [Idle EXCEPT !.op = "createTask", !.pc = "done",
                                                     !.caller = u, !.task = t, !.resp = Created]]
  /\ UNCHANGED <<bids, milestones, notifications, messages, sockets, emitted>>

\* submitBid that looks the task up before it checks the caller's role
submitBid_TaskFirst(s, u, t) ==
  /\ Free(s)
  /\ LET r == [Idle EXCEPT !.op = "submitBid", !.caller = u, !.task = t]
         fail(code) == [reqs EXCEPT ![s] = [r EXCEPT !.pc = "done", !.resp = code]]
     IN reqs' =
          IF t \notin DOMAIN tasks THEN fail(NotFound)
          ELSE IF UserRole(u) # "freelancer" THEN fail(Forbidden)
          ELSE IF tasks[t].status # "open" THEN fail(InvalidState)
          ELSE IF tasks[t].clientId = u THEN fail(InvalidState)
          ELSE [reqs EXCEPT ![s] = [r EXCEPT !.pc = "findFirst", !.peer = tasks[t].clientId]]
  /\ UNCHANGED <<tasks, bids, milestones, notifications, messages, sockets, emitted>>

\* ------------------------------------------------------- POST /api/bids
\* role check, prisma.task.findUnique and the checks on the task read
submitBid(s, u, t) ==
  /\ Free(s)
  /\ LET r == [Idle EXCEPT !.op = "submitBid", !.caller = u, !.task = t]
         fail(code) == [reqs EXCEPT ![s] = [r EXCEPT !.pc = "done", !.resp = code]]
     IN reqs' =
          IF UserRole(u) # "freelancer" THEN fail(Forbidden)
          ELSE IF t \notin DOMAIN tasks THEN fail(NotFound)
          ELSE IF tasks[t].status # "open" THEN fail(InvalidState)
          ELSE IF tasks[t].clientId = u THEN fail(InvalidState)
          ELSE [reqs EXCEPT ![s] = [r EXCEPT !.pc = "findFirst", !.peer = tasks[t].clientId]]
  /\ UNCHANGED <<tasks, bids, milestones, notifications, messages, sockets, emitted>>

\* submitBid_findFirst that finds a bid only when it is still pending
submitBid_findFirst_PendingOnly(s) ==
  /\ reqs[s].op = "submitBid" /\ reqs[s].pc = "findFirst"
  /\ LET existingBid == \E i \in SeqIds(bids) :
                           /\ bids[i].taskId = reqs[s].task
                           /\ bids[i].freelancerId = reqs[s].caller
                           /\ bids[i].status = "pending"
     IN reqs' = IF existingBid THEN Respond(s, Conflict)
                ELSE [reqs EXCEPT ![s].pc = "create"]
  /\ UNCHANGED <<tasks, bids, milestones, notifications, messages, sockets, emitted>>

\* prisma.bid.findFirst({ where: { taskId, freelancerId } })
submitBid_findFirst(s) ==
  /\ reqs[s].op = "submitBid" /\ reqs[s].pc = "findFirst"
  /\ LET existingBid == \E i \in SeqIds(bids) :
                           bids[i].taskId = reqs[s].task /\ bids[i].freelancerId = reqs[s].caller
     IN reqs' = IF existingBid THEN Respond(s, Conflict)
                ELSE [reqs EXCEPT ![s].pc = "create"]
  /\ UNCHANGED <<tasks, bids, milestones, notifications, messages, sockets, emitted>>

\* prisma.bid.create: status defaults to pending
submitBid_create(s) ==
  /\ reqs[s].op = "submitBid" /\ reqs[s].pc = "create"
  /\ bids' = Append(bids, [taskId |-> reqs[s].task, freelancerId |-> reqs[s].caller,
                           status |-> "pending"])
  /\ reqs' = [reqs EXCEPT ![s].pc = "notify", ![s].id = Len(bids) + 1]
  /\ UNCHANGED <<tasks, milestones, notifications, messages, sockets, emitted>>

\* prisma.notification.create for the task's client
submitBid_notify(s) ==
  /\ reqs[s].op = "submitBid" /\ reqs[s].pc = "notify"
  /\ notifications' = NotificationCreate(reqs[s].peer, "new_bid", reqs[s].task)
  /\ reqs' = [reqs EXCEPT ![s].pc = "emit", ![s].nid = Len(notifications) + 1]
  /\ UNCHANGED <<tasks, bids, milestones, messages, sockets, emitted>>

\* emit new_notification to the client's private channel, respond 201
submitBid_emit(s) ==
  /\ reqs[s].op = "submitBid" /\ reqs[s].pc = "emit"
  /\ emitted' = Emit(emitted, {UserRoom(reqs[s].peer)}, "new_notification", reqs[s].nid, reqs[s].task)
  /\ reqs' = Respond(s, Created)
  /\ UNCHANGED <<tasks, bids, milestones, notifications, messages, sockets>>

\* acceptBid that does not compare the task's client with the caller
acceptBid_NoOwnerCheck(s, u, b) ==
  /\ Free(s)
  /\ LET r == [Idle EXCEPT !.op = "acceptBid", !.caller = u, !.id = b]
         fail(code) == [reqs EXCEPT ![s] = [r EXCEPT !.pc = "done", !.resp = code]]
     IN reqs' =
          IF b \notin SeqIds(bids) THEN fail(NotFound)
          ELSE IF tasks[bids[b].taskId].status # "open" THEN fail(InvalidState)
          ELSE [reqs EXCEPT ![s] = [r EXCEPT !.pc = "tx", !.task = bids[b].taskId,
                                              !.peer = bids[b].freelancerId]]
  /\ UNCHANGED <<tasks, bids, milestones, notifications, messages, sockets, emitted>>

\* ---------------------------------------- PATCH /api/bids/:bidId/accept
\* prisma.bid.findUnique({ include: { task, freelancer } }) and the checks
acceptBid(s, u, b) ==
  /\ Free(s)
  /\ LET r == [Idle EXCEPT !.op = "acceptBid", !.caller = u, !.id = b]
         fail(code) == [reqs EXCEPT ![s] = [r EXCEPT !.pc = "done", !.resp = code]]
     IN reqs' =
          IF b \notin SeqIds(bids) THEN fail(NotFound)
          ELSE IF tasks[bids[b].taskId].clientId # u THEN fail(Forbidden)
          ELSE IF tasks[bids[b].taskId].status # "open" THEN fail(InvalidState)
          ELSE [reqs EXCEPT ![s] = [r EXCEPT !.pc = "tx", !.task = bids[b].taskId,
                                              !.peer = bids[b].freelancerId]]
  /\ UNCHANGED <<tasks, bids, milestones, notifications, messages, sockets, emitted>>

\* AcceptWrites without step 2 (the siblings are left as they are)
AcceptWrites_NoReject(b, t) ==
  [i \in SeqIds(bids) |-> IF i = b THEN [bids[i] EXCEPT !.status = "accepted"] ELSE bids[i]]

\* the three writes of the transaction, as they stand at its commit
AcceptWrites(b, t) ==
  [i \in SeqIds(bids) |->
     IF i = b THEN [bids[i] EXCEPT !.status = "accepted"]
     ELSE IF bids[i].taskId = t THEN [bids[i] EXCEPT !.status = "rejected"]
     ELSE bids[i]]

\* another acceptBid transaction of the same task, on another bid, is open:
\* each locks its own bid row first and then needs the other's
Deadlock(s) ==
  \E o \in Slots \ {s} : /\ reqs[o].op = "acceptBid" /\ reqs[o].pc = "tx"
                         /\ reqs[o].task = reqs[s].task /\ reqs[o].id # reqs[s].id

\* acceptBid_tx whose third write is lost while the first two are kept
acceptBid_tx_Partial(s) ==
  /\ reqs[s].op = "acceptBid" /\ reqs[s].pc = "tx"
  /\ \/ /\ bids' = AcceptWrites(reqs[s].id, reqs[s].task)
        /\ reqs' = [reqs EXCEPT ![s].pc = "notifyFreelancer"]
        /\ UNCHANGED tasks
     \/ /\ Deadlock(s)
        /\ reqs' = Respond(s, InternalError)
        /\ UNCHANGED <<tasks, bids>>
  /\ UNCHANGED <<milestones, notifications, messages, sockets, emitted>>

\* prisma.$transaction: accept the bid, reject its siblings, assign the task.
\* The transaction only writes, so under row locking it takes effect as one
\* step at its commit; when it is the victim of a deadlock with another
\* acceptBid transaction it is rolled back, the error is caught: 500.
acceptBid_tx(s) ==
  /\ reqs[s].op = "acceptBid" /\ reqs[s].pc = "tx"
  /\ \/ /\ bids' = AcceptWrites(reqs[s].id, reqs[s].task)
        /\ tasks' = [tasks EXCEPT ![reqs[s].task].status = "assigned"]
        /\ reqs' = [reqs EXCEPT ![s].pc = "notifyFreelancer"]
     \/ /\ Deadlock(s)
        /\ reqs' = Respond(s, InternalError)
        /\ UNCHANGED <<tasks, bids>>
  /\ UNCHANGED <<milestones, notifications, messages, sockets, emitted>>

\* prisma.notification.create for the winning freelancer
acceptBid_notifyFreelancer(s) ==
  /\ reqs[s].op = "acceptBid" /\ reqs[s].pc = "notifyFreelancer"
  /\ \/ /\ notifications' = NotificationCreate(reqs[s].peer, "hired", reqs[s].task)
        /\ reqs' = [reqs EXCEPT ![s].pc = "notifyClient", ![s].nid = Len(notifications) + 1]
     \/ /\ reqs' = Respond(s, InternalError)   \* the create throws: catch, 500
        /\ UNCHANGED notifications
  /\ UNCHANGED <<tasks, bids, milestones, messages, sockets, emitted>>

\* emit the freelancer's notification, then prisma.notification.create for the client
acceptBid_notifyClient(s) ==
  /\ reqs[s].op = "acceptBid" /\ reqs[s].pc = "notifyClient"
  /\ emitted' = Emit(emitted, {UserRoom(reqs[s].peer)}, "new_notification", reqs[s].nid, reqs[s].task)
  /\ \/ /\ notifications' = NotificationCreate(reqs[s].caller, "hired_confirm", reqs[s].task)
        /\ reqs' = [reqs EXCEPT ![s].pc = "activate", ![s].nid = Len(notifications) + 1]
     \/ /\ reqs' = Respond(s, InternalError)   \* the create throws: catch, 500
        /\ UNCHANGED notifications
  /\ UNCHANGED <<tasks, bids, milestones, messages, sockets>>

\* acceptBid_activate that emits chat_activated before the client's notification
acceptBid_activate_ChatFirst(s) ==
  /\ reqs[s].op = "acceptBid" /\ reqs[s].pc = "activate"
  /\ emitted' = Emit(Emit(emitted, {UserRoom(reqs[s].caller), UserRoom(reqs[s].peer)},
                          "chat_activated", 0, reqs[s].task),
                     {UserRoom(reqs[s].caller)}, "new_notification", reqs[s].nid, reqs[s].task)
  /\ reqs' = Respond(s, OK)
  /\ UNCHANGED <<tasks, bids, milestones, notifications, messages, sockets>>

\* emit the client's notification, emit chat_activated to both, respond 200
acceptBid_activate(s) ==
  /\ reqs[s].op = "acceptBid" /\ reqs[s].pc = "activate"
  /\ emitted' = Emit(Emit(emitted, {UserRoom(reqs[s].caller)}, "new_notification",
                          reqs[s].nid, reqs[s].task),
                     {UserRoom(reqs[s].caller), UserRoom(reqs[s].peer)}, "chat_activated",
                     0, reqs[s].task)
  /\ reqs' = Respond(s, OK)
  /\ UNCHANGED <<tasks, bids, milestones, notifications, messages, sockets>>

\* ------------------------------------------------- POST /api/milestones
\* role check, prisma.task.findUnique({ include: accepted bids }), owner check
createMilestone(s, u, t) ==
  /\ Free(s)
  /\ LET r == [Idle EXCEPT !.op = "createMilestone", !.caller = u, !.task = t]
         fail(code) == [reqs EXCEPT ![s] = [r EXCEPT !.pc = "done", !.resp = code]]
     IN IF UserRole(u) # "client" THEN reqs' = fail(Forbidden)
        ELSE IF t \notin DOMAIN tasks \/ tasks[t].clientId # u THEN reqs' = fail(Forbidden)
        ELSE IF AcceptedBids(t) = {}
          THEN reqs' = [reqs EXCEPT ![s] = [r EXCEPT !.pc = "create"]]
          ELSE \E b \in AcceptedBids(t) :   \* task.bids[0]
                 reqs' = [reqs EXCEPT ![s] = [r EXCEPT !.pc = "create",
                                                      !.peer = bids[b].freelancerId]]
  /\ UNCHANGED <<tasks, bids, milestones, notifications, messages, sockets, emitted>>

\* createMilestone_create that puts a completed task back to in_progress
createMilestone_create_Reopen(s) ==
  /\ reqs[s].op = "createMilestone" /\ reqs[s].pc = "create"
  /\ milestones' = Append(milestones, [taskId |-> reqs[s].task, status |-> "pending"])
  /\ tasks' = [tasks EXCEPT ![reqs[s].task].status =
                 IF @ = "completed" THEN "in_progress" ELSE @]
  /\ reqs' = IF reqs[s].peer = "none"
               THEN [reqs EXCEPT ![s].pc = "done", ![s].resp = Created,
                                 ![s].id = Len(milestones) + 1]
               ELSE [reqs EXCEPT ![s].pc = "notify", ![s].id = Len(milestones) + 1]
  /\ UNCHANGED <<bids, notifications, messages, sockets, emitted>>

\* prisma.milestone.create with status pending; 201 at once when nobody is hired
createMilestone_create(s) ==
  /\ reqs[s].op = "createMilestone" /\ reqs[s].pc = "create"
  /\ milestones' = Append(milestones, [taskId |-> reqs[s].task, status |-> "pending"])
  /\ reqs' = IF reqs[s].peer = "none"
               THEN [reqs EXCEPT ![s].pc = "done", ![s].resp = Created,
                                 ![s].id = Len(milestones) + 1]
               ELSE [reqs EXCEPT ![s].pc = "notify", ![s].id = Len(milestones) + 1]
  /\ UNCHANGED <<tasks, bids, notifications, messages, sockets, emitted>>

\* prisma.notification.create for the assigned freelancer
createMilestone_notify(s) ==
  /\ reqs[s].op = "createMilestone" /\ reqs[s].pc = "notify"
  /\ notifications' = NotificationCreate(reqs[s].peer, "new_milestone", reqs[s].task)
  /\ reqs' = [reqs EXCEPT ![s].pc = "emit", ![s].nid = Len(notifications) + 1]
  /\ UNCHANGED <<tasks, bids, milestones, messages, sockets, emitted>>

createMilestone_emit(s) ==
  /\ reqs[s].op = "createMilestone" /\ reqs[s].pc = "emit"
  /\ emitted' = Emit(emitted, {UserRoom(reqs[s].peer)}, "new_notification", reqs[s].nid, reqs[s].task)
  /\ reqs' = Respond(s, Created)
  /\ UNCHANGED <<tasks, bids, milestones, notifications, messages, sockets>>

\* a releasePayment transaction that has updated milestone m and not committed
\* holds the row lock of m
RowLocked(m, s) ==
  \E o \in Slots \ {s} : /\ reqs[o].op = "releasePayment"
                         /\ reqs[o].pc \in {"txCount", "txTask"}
                         /\ reqs[o].id = m

\* requestCompletion that lets every freelancer through, hired or not
requestCompletion_AnyFreelancer(s, u, m) ==
  /\ Free(s)
  /\ LET r == [Idle EXCEPT !.op = "requestCompletion", !.caller = u, !.id = m]
         fail(code) == [reqs EXCEPT ![s] = [r EXCEPT !.pc = "done", !.resp = code]]
     IN IF m \notin SeqIds(milestones) THEN reqs' = fail(NotFound)
        ELSE LET t == milestones[m].taskId
             IN reqs' =
                  IF UserRole(u) # "freelancer" THEN fail(Forbidden)
                  ELSE IF milestones[m].status # "pending" THEN fail(InvalidState)
                  ELSE [reqs EXCEPT ![s] = [r EXCEPT !.pc = "update", !.task = t,
                                                    !.peer = tasks[t].clientId]]
  /\ UNCHANGED <<tasks, bids, milestones, notifications, messages, sockets, emitted>>

\* requestCompletion that goes ahead when the task has no accepted bid
requestCompletion_NoHire(s, u, m) ==
  /\ Free(s)
  /\ LET r == [Idle EXCEPT !.op = "requestCompletion", !.caller = u, !.id = m]
         fail(code) == [reqs EXCEPT ![s] = [r EXCEPT !.pc = "done", !.resp = code]]
     IN IF m \notin SeqIds(milestones) THEN reqs' = fail(NotFound)
        ELSE LET t == milestones[m].taskId
                 go == [reqs EXCEPT ![s] = [r EXCEPT !.pc = "update", !.task = t,
                                                    !.peer = tasks[t].clientId]]
             IN IF AcceptedBids(t) = {}
                  THEN reqs' = IF milestones[m].status # "pending" THEN fail(InvalidState)
                               ELSE go
                ELSE \E b \in AcceptedBids(t) :
                       reqs' =
                         IF bids[b].freelancerId # u THEN fail(Forbidden)
                         ELSE IF milestones[m].status # "pending" THEN fail(InvalidState)
                         ELSE go
  /\ UNCHANGED <<tasks, bids, milestones, notifications, messages, sockets, emitted>>

\* ------------------------- PATCH /api/milestones/:milestoneId/complete
\* prisma.milestone.findUnique({ include: task with accepted bids }) and checks
requestCompletion(s, u, m) ==
  /\ Free(s)
  /\ LET r == [Idle EXCEPT !.op = "requestCompletion", !.caller = u, !.id = m]
         fail(code) == [reqs EXCEPT ![s] = [r EXCEPT !.pc = "done", !.resp = code]]
     IN IF m \notin SeqIds(milestones) THEN reqs' = fail(NotFound)
        ELSE LET t == milestones[m].taskId
             IN IF AcceptedBids(t) = {} THEN reqs' = fail(Forbidden)
                ELSE \E b \in AcceptedBids(t) :   \* milestone.task.bids[0]
                       reqs' =
                         IF bids[b].freelancerId # u THEN fail(Forbidden)
                         ELSE IF milestones[m].status # "pending" THEN fail(InvalidState)
                         ELSE [reqs EXCEPT ![s] = [r EXCEPT !.pc = "update", !.task = t,
                                                           !.peer = tasks[t].clientId]]
  /\ UNCHANGED <<tasks, bids, milestones, notifications, messages, sockets, emitted>>

\* prisma.milestone.update({ data: { status: completed } }): no condition on
\* the status the row has by now
requestCompletion_update(s) ==
  /\ reqs[s].op = "requestCompletion" /\ reqs[s].pc = "update"
  /\ ~RowLocked(reqs[s].id, s)
  /\ milestones' = [milestones EXCEPT ![reqs[s].id].status = "completed"]
  /\ reqs' = [reqs EXCEPT ![s].pc = "notify"]
  /\ UNCHANGED <<tasks, bids, notifications, messages, sockets, emitted>>

requestCompletion_notify(s) ==
  /\ reqs[s].op = "requestCompletion" /\ reqs[s].pc = "notify"
  /\ notifications' = NotificationCreate(reqs[s].peer, "review", reqs[s].task)
  /\ reqs' = [reqs EXCEPT ![s].pc = "emit", ![s].nid = Len(notifications) + 1]
  /\ UNCHANGED <<tasks, bids, milestones, messages, sockets, emitted>>

requestCompletion_emit(s) ==
  /\ reqs[s].op = "requestCompletion" /\ reqs[s].pc = "emit"
  /\ emitted' = Emit(emitted, {UserRoom(reqs[s].peer)}, "new_notification", reqs[s].nid, reqs[s].task)
  /\ reqs' = Respond(s, OK)
  /\ UNCHANGED <<tasks, bids, milestones, notifications, messages, sockets>>

\* releasePayment that pays any milestone that is not paid yet
releasePayment_NoStatusCheck(s, u, m) ==
  /\ Free(s)
  /\ LET r == [Idle EXCEPT !.op = "releasePayment", !.caller = u, !.id = m]
         fail(code) == [reqs EXCEPT ![s] = [r EXCEPT !.pc = "done", !.resp = code]]
     IN IF m \notin SeqIds(milestones) THEN reqs' = fail(NotFound)
        ELSE LET t == milestones[m].taskId
                 go(f) == [reqs EXCEPT ![s] = [r EXCEPT !.pc = "txUpdate", !.task = t,
                                                        !.tstatus = tasks[t].status,
                                                        !.peer = f]]
             IN IF tasks[t].clientId # u THEN reqs' = fail(Forbidden)
                ELSE IF milestones[m].status = "paid" THEN reqs' = fail(InvalidState)
                ELSE IF AcceptedBids(t) = {} THEN reqs' = go("none")
                ELSE \E b \in AcceptedBids(t) : reqs' = go(bids[b].freelancerId)
  /\ UNCHANGED <<tasks, bids, milestones, notifications, messages, sockets, emitted>>

\* ------------------ PATCH /api/milestones/:milestoneId/release-payment
\* prisma.milestone.findUnique({ include: task with accepted bids }) and checks
releasePayment(s, u, m) ==
  /\ Free(s)
  /\ LET r == [Idle EXCEPT !.op = "releasePayment", !.caller = u, !.id = m]
         fail(code) == [reqs EXCEPT ![s] = [r EXCEPT !.pc = "done", !.resp = code]]
     IN IF m \notin SeqIds(milestones) THEN reqs' = fail(NotFound)
        ELSE LET t == milestones[m].taskId
                 go(f) == [reqs EXCEPT ![s] = [r EXCEPT !.pc = "txUpdate", !.task = t,
                                                        !.tstatus = tasks[t].status,
                                                        !.peer = f]]
             IN IF tasks[t].clientId # u THEN reqs' = fail(Forbidden)
                ELSE IF milestones[m].status # "completed" THEN reqs' = fail(InvalidState)
                ELSE IF AcceptedBids(t) = {} THEN reqs' = go("none")
                ELSE \E b \in AcceptedBids(t) : reqs' = go(bids[b].freelancerId)
  /\ UNCHANGED <<tasks, bids, milestones, notifications, messages, sockets, emitted>>

\* tx.milestone.update({ status: paid }): takes the row lock; the write is
\* visible to others at the commit
releasePayment_txUpdate(s) ==
  /\ reqs[s].op = "releasePayment" /\ reqs[s].pc = "txUpdate"
  /\ ~RowLocked(reqs[s].id, s)
  /\ reqs' = [reqs EXCEPT ![s].pc = "txCount"]
  /\ UNCHANGED <<tasks, bids, milestones, notifications, messages, sockets, emitted>>

\* what tx.milestone.count({ taskId, status: { not: paid } }) sees: the
\* committed rows, with the transaction's own update of m
RemainingMilestones(t, m) ==
  Cardinality({i \in SeqIds(milestones) :
                 /\ milestones[i].taskId = t
                 /\ i # m
                 /\ milestones[i].status # "paid"})

releasePayment_txCount(s) ==
  /\ reqs[s].op = "releasePayment" /\ reqs[s].pc = "txCount"
  /\ reqs' = [reqs EXCEPT ![s].pc = "txTask",
                          ![s].cnt = RemainingMilestones(reqs[s].task, reqs[s].id)]
  /\ UNCHANGED <<tasks, bids, milestones, notifications, messages, sockets, emitted>>

\* RollupStatus that never moves an assigned task to in_progress
RollupStatus_NoProgress(remaining, readStatus, current) ==
  IF remaining = 0 THEN "completed" ELSE current

\* the task status the transaction writes: completed when nothing remained,
\* in_progress when the task read before the transaction was assigned
RollupStatus(remaining, readStatus, current) ==
  IF remaining = 0 THEN "completed"
  ELSE IF readStatus = "assigned" THEN "in_progress"
  ELSE current

\* tx.task.update (when there is one) and the commit
releasePayment_txTask(s) ==
  /\ reqs[s].op = "releasePayment" /\ reqs[s].pc = "txTask"
  /\ milestones' = [milestones EXCEPT ![reqs[s].id].status = "paid"]
  /\ tasks' = [tasks EXCEPT ![reqs[s].task].status =
                 RollupStatus(reqs[s].cnt, reqs[s].tstatus, tasks[reqs[s].task].status)]
  /\ reqs' = [reqs EXCEPT ![s].pc = "notify"]
  /\ UNCHANGED <<bids, notifications, messages, sockets, emitted>>

\* milestone.task.bids[0].freelancerId throws when no accepted bid was read
\* (caught: 500); otherwise prisma.notification.create for the freelancer
releasePayment_notify(s) ==
  /\ reqs[s].op = "releasePayment" /\ reqs[s].pc = "notify"
  /\ IF reqs[s].peer = "none"
       THEN /\ reqs' = Respond(s, InternalError)
            /\ UNCHANGED notifications
       ELSE \/ /\ notifications' = NotificationCreate(reqs[s].peer, "payment_released",
                                                       reqs[s].task)
               /\ reqs' = [reqs EXCEPT ![s].pc = "emit", ![s].nid = Len(notifications) + 1]
            \/ /\ reqs' = Respond(s, InternalError)   \* the create throws: catch, 500
               /\ UNCHANGED notifications
  /\ UNCHANGED <<tasks, bids, milestones, messages, sockets, emitted>>

releasePayment_emit(s) ==
  /\ reqs[s].op = "releasePayment" /\ reqs[s].pc = "emit"
  /\ emitted' = Emit(emitted, {UserRoom(reqs[s].peer)}, "new_notification", reqs[s].nid, reqs[s].task)
  /\ reqs' = Respond(s, OK)
  /\ UNCHANGED <<tasks, bids, milestones, notifications, messages, sockets>>

\* connect that lets a connection in whatever its token
connect_NoVerify(c, u, token) ==
  /\ c \notin DOMAIN sockets
  /\ sockets' = [x \in DOMAIN sockets \cup {c} |->
                   IF x = c THEN [user |-> u, rooms |-> {UserRoom(u)}]
                   ELSE sockets[x]]
  /\ UNCHANGED <<tasks, bids, milestones, notifications, messages, emitted, reqs>>

\* ------------------------------------------------ socket/index.ts: chat
\* io.use: the handshake token is verified; a missing or invalid token
\* refuses the connection.  io.on('connection'): the socket joins the private
\* room of its user.
connect(c, u, token) ==
  /\ c \notin DOMAIN sockets
  /\ IF token # "valid"
       THEN /\ emitted' = Append(emitted, Entry("connect_error", {SidRoom(c)}, {}, 0, "none",
                                                "none", "Authentication error"))
            /\ UNCHANGED sockets
       ELSE /\ sockets' = [x \in DOMAIN sockets \cup {c} |->
                             IF x = c THEN [user |-> u, rooms |-> {UserRoom(u)}]
                             ELSE sockets[x]]
            /\ UNCHANGED emitted
  /\ UNCHANGED <<tasks, bids, milestones, notifications, messages, reqs>>

\* the sockets left when c is gone (socket.io takes it out of all its rooms)
Without(c) == [x \in DOMAIN sockets \ {c} |-> sockets[x]]

\* the client goes away, or the server ran socket.disconnect(true)
disconnect(c) ==
  /\ c \in DOMAIN sockets
  /\ sockets' = Without(c)
  /\ UNCHANGED <<tasks, bids, milestones, notifications, messages, emitted, reqs>>

\* isClient || isAcceptedFreelancer, on the task as read
Authorized(u, t) ==
  \/ tasks[t].clientId = u
  \/ \E b \in AcceptedBids(t) : bids[b].freelancerId = u

\* join_task that lets everybody in
join_task_NoAuth(s, c, t) ==
  /\ Free(s)
  /\ c \in DOMAIN sockets
  /\ LET u == sockets[c].user
         r == [Idle EXCEPT !.op = "join_task", !.caller = u, !.sock = c, !.task = t]
     IN IF t \notin DOMAIN tasks
          THEN /\ emitted' = EmitError(emitted, c, t, "Task not found")
               /\ UNCHANGED <<sockets, reqs>>
          ELSE /\ sockets' = [sockets EXCEPT ![c].rooms = @ \cup {TaskRoom(t)}]
               /\ reqs' = [reqs EXCEPT ![s] = [r EXCEPT !.pc = "loadMessages"]]
               /\ UNCHANGED emitted
  /\ UNCHANGED <<tasks, bids, milestones, notifications, messages>>

\* socket.on('join_task'): prisma.task.findUnique, then socket.join for the
\* client and the accepted freelancer, an error and a disconnect for others
join_task(s, c, t) ==
  /\ Free(s)
  /\ c \in DOMAIN sockets
  /\ LET u == sockets[c].user
         r == [Idle EXCEPT !.op = "join_task", !.caller = u, !.sock = c, !.task = t]
     IN IF t \notin DOMAIN tasks
          THEN /\ emitted' = EmitError(emitted, c, t, "Task not found")
               /\ UNCHANGED <<sockets, reqs>>
        ELSE IF Authorized(u, t)
          THEN /\ sockets' = [sockets EXCEPT ![c].rooms = @ \cup {TaskRoom(t)}]
               /\ reqs' = [reqs EXCEPT ![s] = [r EXCEPT !.pc = "loadMessages"]]
               /\ UNCHANGED emitted
          ELSE /\ emitted' = EmitError(emitted, c, t, "Unauthorized to join this task chat")
               /\ sockets' = Without(c)
               /\ UNCHANGED reqs
  /\ UNCHANGED <<tasks, bids, milestones, notifications, messages>>

\* the rows of the history query: the task's messages by createdAt ascending
\* (messages is kept in creation order), cut off after `take` rows
TaskMessages(t) == SelectSeq([i \in SeqIds(messages) |-> i], LAMBDA i : messages[i].taskId = t)

HistoryTake == 50

FindMessages(t) ==
  LET all == TaskMessages(t)
  IN IF Len(all) <= HistoryTake THEN all ELSE SubSeq(all, 1, HistoryTake)

\* prisma.message.findMany of the task, then load_messages to the caller only
join_task_loadMessages(s) ==
  /\ reqs[s].op = "join_task" /\ reqs[s].pc = "loadMessages"
  /\ emitted' = Append(emitted,
       [Entry("load_messages", {SidRoom(reqs[s].sock)}, InRooms({SidRoom(reqs[s].sock)}),
              Len(FindMessages(reqs[s].task)), reqs[s].task, "none", "")
          EXCEPT !.ids = FindMessages(reqs[s].task)])
  /\ reqs' = [reqs EXCEPT ![s] = Idle]
  /\ UNCHANGED <<tasks, bids, milestones, notifications, messages, sockets>>

\* send_message that takes membership of the room as authorization
send_message_TrustRoom(s, c, t) ==
  /\ Free(s)
  /\ c \in DOMAIN sockets
  /\ LET u == sockets[c].user
         r == [Idle EXCEPT !.op = "send_message", !.caller = u, !.sock = c, !.task = t]
     IN IF t \notin DOMAIN tasks
          THEN /\ emitted' = EmitError(emitted, c, t, "Task not found for message")
               /\ UNCHANGED reqs
        ELSE IF ~(Authorized(u, t) \/ TaskRoom(t) \in sockets[c].rooms)
          THEN /\ emitted' = EmitError(emitted, c, t, "Unauthorized to send messages to this task")
               /\ UNCHANGED reqs
          ELSE /\ reqs' = [reqs EXCEPT ![s] = [r EXCEPT !.pc = "create"]]
               /\ UNCHANGED emitted
  /\ UNCHANGED <<tasks, bids, milestones, notifications, messages, sockets>>

\* socket.on('send_message'): prisma.task.findUnique and the same check
send_message(s, c, t) ==
  /\ Free(s)
  /\ c \in DOMAIN sockets
  /\ LET u == sockets[c].user
         r == [Idle EXCEPT !.op = "send_message", !.caller = u, !.sock = c, !.task = t]
     IN IF t \notin DOMAIN tasks
          THEN /\ emitted' = EmitError(emitted, c, t, "Task not found for message")
               /\ UNCHANGED reqs
        ELSE IF ~Authorized(u, t)
          THEN /\ emitted' = EmitError(emitted, c, t, "Unauthorized to send messages to this task")
               /\ UNCHANGED reqs
          ELSE /\ reqs' = [reqs EXCEPT ![s] = [r EXCEPT !.pc = "create"]]
               /\ UNCHANGED emitted
  /\ UNCHANGED <<tasks, bids, milestones, notifications, messages, sockets>>

\* prisma.message.create; when it throws, an error goes to the sender
send_message_create(s) ==
  /\ reqs[s].op = "send_message" /\ reqs[s].pc = "create"
  /\ \/ /\ messages' = Append(messages, [taskId |-> reqs[s].task, senderId |-> reqs[s].caller])
        /\ reqs' = [reqs EXCEPT ![s].pc = "broadcast", ![s].id = Len(messages) + 1]
        /\ UNCHANGED emitted
     \/ /\ emitted' = EmitError(emitted, reqs[s].sock, reqs[s].task, "Failed to send message")
        /\ reqs' = [reqs EXCEPT ![s] = Idle]
        /\ UNCHANGED messages
  /\ UNCHANGED <<tasks, bids, milestones, notifications, sockets>>

\* send_message_broadcast with socket.to: everybody in the room but the sender
send_message_broadcast_Others(s) ==
  /\ reqs[s].op = "send_message" /\ reqs[s].pc = "broadcast"
  /\ emitted' = Append(emitted,
       Entry("new_message", {TaskRoom(reqs[s].task)},
             InRooms({TaskRoom(reqs[s].task)}) \ {reqs[s].sock},
             reqs[s].id, reqs[s].task, reqs[s].caller, ""))
  /\ reqs' = [reqs EXCEPT ![s] = Idle]
  /\ UNCHANGED <<tasks, bids, milestones, notifications, messages, sockets>>

\* io.to(task room).emit('new_message', message): the sender's socket included
send_message_broadcast(s) ==
  /\ reqs[s].op = "send_message" /\ reqs[s].pc = "broadcast"
  /\ emitted' = Append(emitted,
       Entry("new_message", {TaskRoom(reqs[s].task)}, InRooms({TaskRoom(reqs[s].task)}),
             reqs[s].id, reqs[s].task, reqs[s].caller, ""))
  /\ reqs' = [reqs EXCEPT ![s] = Idle]
  /\ UNCHANGED <<tasks, bids, milestones, notifications, messages, sockets>>

\* typing with io.to: the sender's own socket included
typing_ToAll(c, t, isTyping) ==
  /\ c \in DOMAIN sockets
  /\ emitted' = Append(emitted,
       Entry("user_typing", {TaskRoom(t)}, InRooms({TaskRoom(t)}), 0, t,
             sockets[c].user, IF isTyping THEN "true" ELSE "false"))
  /\ UNCHANGED <<tasks, bids, milestones, notifications, messages, sockets, reqs>>

\* socket.on('typing'): socket.to(task room) reaches the room but the sender
typing(c, t, isTyping) ==
  /\ c \in DOMAIN sockets
  /\ emitted' = Append(emitted,
       Entry("user_typing", {TaskRoom(t)}, InRooms({TaskRoom(t)}) \ {c}, 0, t,
             sockets[c].user, IF isTyping THEN "true" ELSE "false"))
  /\ UNCHANGED <<tasks, bids, milestones, notifications, messages, sockets, reqs>>

\* the client's leave_task event (TaskDetail.tsx, effect cleanup): the server
\* registers no listener for it, so the event is dropped; the slot keeps the
\* event that arrived
leave_task(s, c, t) ==
  /\ Free(s)
  /\ c \in DOMAIN sockets
  /\ reqs' = [reqs EXCEPT ![s] = [Idle EXCEPT !.op = "leave_task", !.pc = "done",
                                              !.caller = sockets[c].user,
                                              !.sock = c, !.task = t]]
  /\ UNCHANGED <<tasks, bids, milestones, notifications, messages, sockets, emitted>>

\* ------------------------------------------------------ bounding the runs
\* Notification rows a handler in flight may still insert
NotifsToCome(r) ==
  CASE r.op = "submitBid" /\ r.pc \in {"findFirst", "create", "notify"} -> 1
    [] r.op = "acceptBid" /\ r.pc \in {"tx", "notifyFreelancer"} -> 2
    [] r.op = "acceptBid" /\ r.pc = "notifyClient" -> 1
    [] r.op = "createMilestone" /\ r.pc \in {"create", "notify"} -> 1
    [] r.op = "requestCompletion" /\ r.pc \in {"update", "notify"} -> 1
    [] r.op = "releasePayment" /\ r.pc \in {"txUpdate", "txCount", "txTask", "notify"} -> 1
    [] OTHER -> 0

\* a new handler that inserts up to k rows keeps the table within its bound
NotifRoom(k) ==
  Len(notifications) + k
    + Cardinality({p \in Slots \X (1..2) : p[2] <= NotifsToCome(reqs[p[1]])})
    <= MaxNotifications

\* ------------------------------------------------- the bid specification
\* bids in the table plus submitBid handlers that may still insert one
BidsInFlight == Cardinality({s \in Slots : reqs[s].op = "submitBid"
                                            /\ reqs[s].pc \in {"findFirst", "create"}})

NextBid ==
  \E s \in Slots :
    \/ \E u \in {"c1", "f1"}, t \in TaskIds : createTask(s, u, t)
    \/ \E u \in {"f1", "f2", "c1"}, t \in TaskIds :
         Len(bids) + BidsInFlight < MaxBids /\ NotifRoom(1) /\ submitBid(s, u, t)
    \/ submitBid_findFirst(s)
    \/ submitBid_create(s)
    \/ submitBid_notify(s)
    \/ submitBid_emit(s)
    \/ \E u \in Clients, b \in 1..MaxBids : NotifRoom(2) /\ acceptBid(s, u, b)
    \/ acceptBid_tx(s)
    \/ acceptBid_notifyFreelancer(s)
    \/ acceptBid_notifyClient(s)
    \/ acceptBid_activate(s)
    \/ Retire(s)

Spec == Init /\ [][NextBid]_vars

\* --------------------------------------------- the milestone specification
\* The database after createTask(c1, t1), submitBid(f1, t1), submitBid(f2, t1)
\* and acceptBid(c1, bid 1) have run one after the other with nobody connected.
HiredTasks == [t \in {"t1"} |-> [clientId |-> "c1", status |-> "assigned"]]
HiredBids == << [taskId |-> "t1", freelancerId |-> "f1", status |-> "accepted"],
               [taskId |-> "t1", freelancerId |-> "f2", status |-> "rejected"] >>
HiredNotifications == << [userId |-> "c1", kind |-> "new_bid", task |-> "t1"],
                        [userId |-> "c1", kind |-> "new_bid", task |-> "t1"],
                        [userId |-> "f1", kind |-> "hired", task |-> "t1"],
                        [userId |-> "c1", kind |-> "hired_confirm", task |-> "t1"] >>
HiredEmitted ==
  << Entry("new_notification", {UserRoom("c1")}, {}, 1, "t1", "none", ""),
     Entry("new_notification", {UserRoom("c1")}, {}, 2, "t1", "none", ""),
     Entry("new_notification", {UserRoom("f1")}, {}, 3, "t1", "none", ""),
     Entry("new_notification", {UserRoom("c1")}, {}, 4, "t1", "none", ""),
     Entry("chat_activated", {UserRoom("c1"), UserRoom("f1")}, {}, 0, "t1", "none", "") >>

InitHired ==
  /\ tasks = HiredTasks
  /\ bids = HiredBids
  /\ milestones = <<>>
  /\ notifications = HiredNotifications
  /\ messages = <<>>
  /\ sockets = <<>>
  /\ emitted = HiredEmitted
  /\ reqs = [s \in Slots |-> Idle]

\* the database right after createTask("c1", "t1"): an open task without bids
InitPosted ==
  /\ tasks = [t \in {"t1"} |-> [clientId |-> "c1", status |-> "open"]]
  /\ bids = <<>>
  /\ milestones = <<>>
  /\ notifications = <<>>
  /\ messages = <<>>
  /\ sockets = <<>>
  /\ emitted = <<>>
  /\ reqs = [s \in Slots |-> Idle]

MilestonesInFlight == Cardinality({s \in Slots : reqs[s].op = "createMilestone"
                                                  /\ reqs[s].pc = "create"})

NextMilestone ==
  \E s \in Slots :
    \/ \E u \in {"c1", "c2", "f1"}, t \in TaskIds :
         /\ Len(milestones) + MilestonesInFlight < MaxMilestones
         /\ NotifRoom(1)
         /\ createMilestone(s, u, t)
    \/ createMilestone_create(s)
    \/ createMilestone_notify(s)
    \/ createMilestone_emit(s)
    \/ \E u \in {"f1", "f2", "c1"}, m \in 1..MaxMilestones :
         NotifRoom(1) /\ requestCompletion(s, u, m)
    \/ requestCompletion_update(s)
    \/ requestCompletion_notify(s)
    \/ requestCompletion_emit(s)
    \/ \E u \in {"c1", "c2"}, m \in 1..MaxMilestones :
         NotifRoom(1) /\ releasePayment(s, u, m)
    \/ releasePayment_txUpdate(s)
    \/ releasePayment_txCount(s)
    \/ releasePayment_txTask(s)
    \/ releasePayment_notify(s)
    \/ releasePayment_emit(s)
    \/ Retire(s)

SpecMilestone == (InitHired \/ InitPosted) /\ [][NextMilestone]_vars

\* --------------------------------------------------- the chat specification
\* entries the handlers in flight may still append to the emit log
EmitsToCome == Cardinality({s \in Slots : reqs[s].op \in {"join_task", "send_message"}})

EmitRoom == Len(emitted) + EmitsToCome < MaxEmitted

MessagesInFlight == Cardinality({s \in Slots : reqs[s].op = "send_message"
                                                /\ reqs[s].pc = "create"})

ChatTasks == TaskIds \cup {"t2"}    \* t2 is never created

NextChat ==
  \/ \E c \in Conns, u \in {"c1", "f1", "f2"}, token \in {"valid", "invalid", "missing"} :
       EmitRoom /\ connect(c, u, token)
  \/ \E c \in Conns : disconnect(c)
  \/ \E c \in Conns, t \in ChatTasks, isTyping \in BOOLEAN : EmitRoom /\ typing(c, t, isTyping)
  \/ \E s \in Slots :
       \/ \E c \in Conns, t \in ChatTasks : EmitRoom /\ join_task(s, c, t)
       \/ join_task_loadMessages(s)
       \/ \E c \in Conns, t \in ChatTasks :
            /\ EmitRoom
            /\ Len(messages) + MessagesInFlight < MaxMessages
            /\ send_message(s, c, t)
       \/ send_message_create(s)
       \/ send_message_broadcast(s)

SpecChat == InitHired /\ [][NextChat]_vars

\* ======================================================= bid engine claims
PostCommit == {"notifyFreelancer", "notifyClient", "activate", "done"}

\* two acceptBid handlers of the same task, on different bids, both past
\* their checks at the same time
AcceptRace(s1, s2) ==
  /\ s1 # s2
  /\ reqs[s1].op = "acceptBid" /\ reqs[s2].op = "acceptBid"
  /\ reqs[s1].task = reqs[s2].task /\ reqs[s1].task # "none"
  /\ reqs[s1].id # reqs[s2].id

\* C1: in every reachable state every task has at most one accepted bid,
\* also after two acceptBid calls on different bids of the task that both
\* read the task as open.
C1_AtMostOneAccepted == \A t \in TaskIds : Cardinality(AcceptedBids(t)) <= 1

\* both transactions of such a race have committed
C1_Witness ==
  \E s1, s2 \in Slots :
    /\ AcceptRace(s1, s2)
    /\ reqs[s1].pc \in PostCommit /\ reqs[s1].resp \in {0, OK}
    /\ reqs[s2].pc \in PostCommit /\ reqs[s2].resp \in {0, OK}

\* C2: of two concurrent acceptBid calls by the client on different bids of
\* one open task, never both return success, and never two freelancers get a
\* "hired" notification for the same task.
C2_OneAcceptSucceeds ==
  /\ ~ \E s1, s2 \in Slots :
         /\ AcceptRace(s1, s2)
         /\ reqs[s1].pc = "done" /\ reqs[s1].resp = OK
         /\ reqs[s2].pc = "done" /\ reqs[s2].resp = OK
  /\ \A i, j \in SeqIds(notifications) :
       (/\ notifications[i].kind = "hired" /\ notifications[j].kind = "hired"
        /\ notifications[i].task = notifications[j].task)
         => notifications[i].userId = notifications[j].userId

\* C3: every task that is assigned, in_progress or completed has exactly one
\* accepted bid and all its other bids are rejected or withdrawn (none pending).
C3_AssignedBidsSettled ==
  \A t \in DOMAIN tasks :
    tasks[t].status \in {"assigned", "in_progress", "completed"} =>
      /\ Cardinality(AcceptedBids(t)) = 1
      /\ \A i \in SeqIds(bids) :
           bids[i].taskId = t => bids[i].status \in {"accepted", "rejected", "withdrawn"}

\* a Bid of freelancer u for task t is in the table
ExistingBid(t, u) == \E i \in SeqIds(bids) : bids[i].taskId = t /\ bids[i].freelancerId = u

\* slot s takes a step of a submitBid handler that has not yet looked for an
\* existing bid: its first step, or its findFirst
SubmitBidChecks(s) ==
  /\ reqs'[s].op = "submitBid"
  /\ reqs[s].pc \in {"idle", "findFirst"}
  /\ reqs'[s] # reqs[s]

\* C8 as stated: submitBid by F on T while a Bid of F for T exists, in any
\* status, fails with Conflict, inserts no Bid and creates no Notification.
C8_DuplicateIsConflict ==
  [][\A s \in Slots :
       (SubmitBidChecks(s) /\ ExistingBid(reqs'[s].task, reqs'[s].caller)) =>
          /\ reqs'[s].pc \in {"findFirst", "done"}
          /\ reqs'[s].pc = "done" => reqs'[s].resp = Conflict
          /\ bids' = bids /\ notifications' = notifications]_vars

\* C8 amended: submitBid by F on T while a Bid of F for T exists always fails,
\* inserts no Bid and creates no Notification; it fails with Conflict when the
\* task it read is open and with InvalidState when the task is no longer open.
C8_DuplicateFails ==
  [][\A s \in Slots :
       (SubmitBidChecks(s) /\ ExistingBid(reqs'[s].task, reqs'[s].caller)) =>
          /\ bids' = bids /\ notifications' = notifications
          /\ reqs[s].pc = "idle" =>
               IF tasks[reqs'[s].task].status = "open"
                 THEN reqs'[s].pc = "findFirst"
                 ELSE reqs'[s].pc = "done" /\ reqs'[s].resp = InvalidState
          /\ reqs[s].pc = "findFirst" =>
               reqs'[s].pc = "done" /\ reqs'[s].resp = Conflict]_vars

\* a submitBid was refused with Conflict and another, on a task no longer
\* open, with InvalidState, both by a freelancer who has a bid on the task
C8_Witness ==
  \E s1, s2 \in Slots :
    /\ reqs[s1].op = "submitBid" /\ reqs[s1].pc = "done" /\ reqs[s1].resp = Conflict
    /\ reqs[s2].op = "submitBid" /\ reqs[s2].pc = "done" /\ reqs[s2].resp = InvalidState
    /\ ExistingBid(reqs[s2].task, reqs[s2].caller)

\* C9: in every reachable state there is at most one Bid per (taskId,
\* freelancerId), also when one freelancer submits twice concurrently.
C9_OneBidPerFreelancer ==
  \A i, j \in SeqIds(bids) :
    (bids[i].taskId = bids[j].taskId /\ bids[i].freelancerId = bids[j].freelancerId) => i = j

\* the state InitHired describes is reachable from the empty database
HiredReached ==
  /\ tasks = HiredTasks /\ bids = HiredBids
  /\ notifications = HiredNotifications /\ emitted = HiredEmitted
  /\ \A s \in Slots : reqs[s].pc = "idle"

\* ================================================= milestone engine claims
MilestonesOf(t) == {i \in SeqIds(milestones) : milestones[i].taskId = t}

AllPaid(t) == \A i \in MilestonesOf(t) : milestones[i].status = "paid"

\* C4: a task is completed if and only if it has at least one milestone and
\* all its milestones are paid.
C4_CompletedIffAllPaid ==
  \A t \in DOMAIN tasks :
    tasks[t].status = "completed" <=> (MilestonesOf(t) # {} /\ AllPaid(t))

ReleaseCommitted == {"notify", "emit", "done"}

\* C5: when two releasePayment calls, one for each of the last two unpaid
\* milestones of a task, ran concurrently and both have committed, the task
\* is completed.
C5_ConcurrentReleasesComplete ==
  \A s1, s2 \in Slots :
    (/\ s1 # s2
     /\ reqs[s1].op = "releasePayment" /\ reqs[s2].op = "releasePayment"
     /\ reqs[s1].pc \in ReleaseCommitted /\ reqs[s2].pc \in ReleaseCommitted
     /\ reqs[s1].resp \in {0, OK} /\ reqs[s2].resp \in {0, OK}
     /\ reqs[s1].task = reqs[s2].task /\ reqs[s1].id # reqs[s2].id
     /\ AllPaid(reqs[s1].task))
      => tasks[reqs[s1].task].status = "completed"

\* slot s starts a handler of operation op in this step
Starts(s, op) == reqs[s].pc = "idle" /\ reqs'[s].op = op

\* the freelancer of the task's accepted bid
IsAssignedFreelancer(u, t) == \E b \in AcceptedBids(t) : bids[b].freelancerId = u

\* C6: releasePayment by the task's client on a milestone that is not
\* completed (pending or paid), and requestCompletion by the assigned
\* freelancer on a milestone that is not pending (completed or paid), fail
\* with InvalidState and leave the milestones, the tasks and the notifications
\* as they were.
C6_WrongStatusFails ==
  [][\A s \in Slots :
       LET m == reqs'[s].id
           known == m \in SeqIds(milestones)
           t == milestones[m].taskId
           refused == /\ reqs'[s].pc = "done" /\ reqs'[s].resp = InvalidState
                      /\ milestones' = milestones /\ tasks' = tasks
                      /\ notifications' = notifications
       IN /\ (/\ Starts(s, "releasePayment") /\ known
              /\ tasks[t].clientId = reqs'[s].caller
              /\ milestones[m].status # "completed") => refused
          /\ (/\ Starts(s, "requestCompletion") /\ known
              /\ IsAssignedFreelancer(reqs'[s].caller, t)
              /\ milestones[m].status # "pending") => refused]_vars

\* a releasePayment on a pending milestone and a requestCompletion on a paid
\* one have both been refused
C6_Witness ==
  \E s1, s2 \in Slots :
    /\ reqs[s1].op = "releasePayment" /\ reqs[s1].resp = InvalidState
    /\ reqs[s1].id \in SeqIds(milestones) /\ milestones[reqs[s1].id].status = "pending"
    /\ reqs[s2].op = "requestCompletion" /\ reqs[s2].resp = InvalidState
    /\ reqs[s2].id \in SeqIds(milestones) /\ milestones[reqs[s2].id].status = "paid"

\* C7: a milestone's status only steps pending -> completed -> paid: a paid
\* milestone stays paid and a completed one is never pending again.
C7_MilestoneMonotonic ==
  [][\A m \in SeqIds(milestones) :
       /\ milestones[m].status = "paid" => milestones'[m].status = "paid"
       /\ milestones[m].status = "completed" => milestones'[m].status # "pending"]_vars

\* ================================================= chat coordinator claims
\* the emit log grew by exactly one entry: event ev, to socket c and no other
OnlyEmits(ev, c) ==
  /\ Len(emitted') = Len(emitted) + 1
  /\ SubSeq(emitted', 1, Len(emitted)) = emitted
  /\ emitted'[Len(emitted')].ev = ev
  /\ emitted'[Len(emitted')].rooms = {SidRoom(c)}
  /\ emitted'[Len(emitted')].rcpt = {c}

\* socket c is not in the room of task t after the step
NotInRoom(c, t) == c \in DOMAIN sockets' => TaskRoom(t) \notin sockets'[c].rooms

\* socket c of a user who is neither the client nor the accepted freelancer
\* of the existing task t
Outsider(c, t) ==
  /\ c \in DOMAIN sockets /\ t \in DOMAIN tasks
  /\ ~Authorized(sockets[c].user, t)

RacingAccept ==
  [Idle EXCEPT !.op = "acceptBid", !.pc = "tx", !.caller = "c1", !.id = 2,
               !.task = "t1", !.peer = "f2"]

InitRacing ==
  /\ tasks = HiredTasks
  /\ bids = HiredBids
  /\ milestones = <<>>
  /\ notifications = HiredNotifications
  /\ messages = <<>>
  /\ sockets = <<>>
  /\ emitted = HiredEmitted
  /\ reqs = [s \in Slots |-> IF s = 2 THEN RacingAccept ELSE Idle]

\* the acceptBid in flight and the milestones of the task, by its client and
\* the freelancer hired first
NextLifecycle ==
  \E s \in Slots :
    \/ acceptBid_tx(s)
    \/ acceptBid_notifyFreelancer(s)
    \/ acceptBid_notifyClient(s)
    \/ acceptBid_activate(s)
    \/ \E t \in TaskIds :
         /\ Len(milestones) + MilestonesInFlight < MaxMilestones
         /\ NotifRoom(1)
         /\ createMilestone(s, "c1", t)
    \/ createMilestone_create(s)
    \/ createMilestone_notify(s)
    \/ createMilestone_emit(s)
    \/ \E u \in {"f1"}, m \in 1..MaxMilestones :
         NotifRoom(1) /\ requestCompletion(s, u, m)
    \/ requestCompletion_update(s)
    \/ requestCompletion_notify(s)
    \/ requestCompletion_emit(s)
    \/ \E m \in 1..MaxMilestones : NotifRoom(1) /\ releasePayment(s, "c1", m)
    \/ releasePayment_txUpdate(s)
    \/ releasePayment_txCount(s)
    \/ releasePayment_txTask(s)
    \/ releasePayment_notify(s)
    \/ releasePayment_emit(s)
    \/ Retire(s)

SpecLifecycle == InitRacing /\ [][NextLifecycle]_vars

\* ------------------------------------------------- the rehire specification
\* entries of the emit log that come from the chat handlers
ChatEmits == Cardinality({k \in SeqIds(emitted) :
                            emitted[k].ev \notin {"new_notification", "chat_activated"}})

RehireRoom == ChatEmits + EmitsToCome < MaxEmitted - Len(HiredEmitted)

\* the chat of the hired task while the second acceptBid is still in flight
NextRehire ==
  \/ \E c \in Conns : connect(c, "f1", "valid")
  \/ \E c \in Conns : disconnect(c)
  \/ \E s \in Slots :
       \/ acceptBid_tx(s)
       \/ acceptBid_notifyFreelancer(s)
       \/ acceptBid_notifyClient(s)
       \/ acceptBid_activate(s)
       \/ Retire(s)
       \/ \E c \in Conns, t \in TaskIds : RehireRoom /\ join_task(s, c, t)
       \/ join_task_loadMessages(s)
       \/ \E c \in Conns, t \in TaskIds :
            /\ RehireRoom
            /\ Len(messages) + MessagesInFlight < MaxMessages
            /\ send_message(s, c, t)
       \/ send_message_create(s)
       \/ send_message_broadcast(s)

SpecRehire == InitRacing /\ [][NextRehire]_vars

\* -------------------------------------------------- the leave specification
\* the chat of the hired task with clients that leave the task page
NextLeave ==
  \/ \E c \in Conns, u \in {"c1", "f1"} : connect(c, u, "valid")
  \/ \E c \in Conns : disconnect(c)
  \/ \E s \in Slots :
       \/ \E c \in Conns, t \in TaskIds : EmitRoom /\ join_task(s, c, t)
       \/ join_task_loadMessages(s)
       \/ \E c \in Conns, t \in TaskIds : leave_task(s, c, t)
       \/ Retire(s)
       \/ \E c \in Conns, t \in TaskIds :
            /\ EmitRoom
            /\ Len(messages) + MessagesInFlight < MaxMessages
            /\ send_message(s, c, t)
       \/ send_message_create(s)
       \/ send_message_broadcast(s)

SpecLeave == InitHired /\ [][NextLeave]_vars

\* ------------------------------------------------ the history specification
\* a chat that already holds n messages: after InitHired the client
\* connected, joined the task's room, sent n messages and disconnected
HistoryMessages(n) == [i \in 1..n |-> [taskId |-> "t1", senderId |-> "c1"]]

HistoryEmitted(n) ==
  HiredEmitted
    \o << [Entry("load_messages", {SidRoom("k1")}, {"k1"}, 0, "t1", "none", "")
            EXCEPT !.ids = <<>>] >>
    \o [i \in 1..n |-> Entry("new_message", {TaskRoom("t1")}, {"k1"}, i, "t1", "c1", "")]

InitHistory ==
  \E n \in 0..MaxHistory :
    /\ tasks = HiredTasks
    /\ bids = HiredBids
    /\ milestones = <<>>
    /\ notifications = HiredNotifications
    /\ messages = HistoryMessages(n)
    /\ sockets = <<>>
    /\ emitted = HistoryEmitted(n)
    /\ reqs = [s \in Slots |-> Idle]

\* the emit log may grow as far beyond the seeded history as MaxEmitted allows
HistoryRoom == Len(emitted) - Len(messages) + EmitsToCome < MaxEmitted

NextHistory ==
  \/ \E c \in Conns, u \in {"c1", "f1"} : connect(c, u, "valid")
  \/ \E c \in Conns : disconnect(c)
  \/ \E s \in Slots :
       \/ \E c \in Conns, t \in TaskIds : HistoryRoom /\ join_task(s, c, t)
       \/ join_task_loadMessages(s)

SpecHistory == InitHistory /\ [][NextHistory]_vars

\* ---------------------------------------------------------------- C11
\* slot s takes the step of its acceptBid transaction
AcceptTxStep(s) == reqs[s].op = "acceptBid" /\ reqs[s].pc = "tx" /\ reqs'[s] # reqs[s]

PushOf(i, kind, t) ==
  /\ emitted[i].ev = "new_notification"
  /\ emitted[i].nid \in SeqIds(notifications)
  /\ notifications[emitted[i].nid].kind = kind
  /\ notifications[emitted[i].nid].task = t
  /\ emitted[i].rooms = {UserRoom(notifications[emitted[i].nid].userId)}

\* the step adds a 'hired' or confirmation row, or emits chat_activated
HiringSideEffect ==
  \/ /\ Len(notifications') > Len(notifications)
     /\ notifications'[Len(notifications')].kind \in {"hired", "hired_confirm"}
  \/ /\ Len(emitted') > Len(emitted)
     /\ emitted'[Len(emitted')].ev = "chat_activated"

\* C12: the side effects of acceptBid come after the commit and in order.
\* Every chat_activated for task T goes to the private rooms of exactly T's
\* client and the hired freelancer, right after the push of the client's
\* confirmation, which comes after the push of the freelancer's 'hired'
\* notification, whose row is older than the confirmation's; a confirmation
\* row exists only once a 'hired' row of the task was pushed; and only an
\* acceptBid whose transaction has committed adds any of them.
C12_SideEffectOrder ==
  /\ [](\A k \in SeqIds(emitted) : emitted[k].ev = "chat_activated" =>
          LET t == emitted[k].task
          IN /\ tasks[t].status # "open"
             /\ k > 1 /\ PushOf(k - 1, "hired_confirm", t)
             /\ notifications[emitted[k - 1].nid].userId = tasks[t].clientId
             /\ \E i \in 1..(k - 2) :
                  /\ PushOf(i, "hired", t)
                  /\ emitted[i].nid < emitted[k - 1].nid
                  /\ emitted[k].rooms =
                       {UserRoom(tasks[t].clientId),
                        UserRoom(notifications[emitted[i].nid].userId)})
  /\ [](\A n \in SeqIds(notifications) : notifications[n].kind = "hired_confirm" =>
          \E i \in SeqIds(emitted) :
             PushOf(i, "hired", notifications[n].task) /\ emitted[i].nid < n)
  /\ [][HiringSideEffect =>
          \E s \in Slots :
            /\ reqs[s].op = "acceptBid" /\ reqs'[s] # reqs[s]
            /\ reqs[s].pc \in {"notifyFreelancer", "notifyClient", "activate"}
            /\ bids[reqs[s].id].status \in {"accepted", "rejected"}
            /\ tasks[reqs[s].task].status = "assigned"]_vars

\* an acceptBid has answered 200 and its chat_activated is the last emit
C12_Witness ==
  /\ \E s \in Slots : reqs[s].op = "acceptBid" /\ reqs[s].pc = "done" /\ reqs[s].resp = OK
  /\ emitted # <<>> /\ emitted[Len(emitted)].ev = "chat_activated"

\* ---------------------------------------------------------------- C13
\* the steps of acceptBid and releasePayment that follow the commit
SideEffectSteps == {"notifyFreelancer", "notifyClient", "activate", "notify", "emit"}

\* C13: a handler of acceptBid or releasePayment that ends after its
\* transaction has committed, also when one of its side effects failed,
\* leaves the committed rows as they are and answers with success.
C13_SideEffectFailureKeepsSuccess ==
  [][\A s \in Slots :
       (/\ reqs[s].op \in {"acceptBid", "releasePayment"}
        /\ reqs[s].pc \in SideEffectSteps
        /\ reqs'[s].pc = "done") =>
          /\ reqs'[s].resp = OK
          /\ bids' = bids /\ tasks' = tasks /\ milestones' = milestones]_vars

\* ---------------------------------------------------------------- C14
\* C14: submitBid checks, in this order, that the caller is a freelancer
\* (Forbidden), that the task exists (NotFound), that it is open
\* (InvalidState), that the caller is not its client (InvalidState) and,
\* with its next read, that the caller has no bid on it yet (Conflict); the
\* first check that fails decides the answer, and a refused submitBid
\* inserts no bid, creates no notification and changes no task.
C14_SubmitBidOrder ==
  [][\A s \in Slots : SubmitBidChecks(s) =>
       LET u == reqs'[s].caller
           t == reqs'[s].task
           same == /\ bids' = bids /\ notifications' = notifications
                   /\ tasks' = tasks /\ emitted' = emitted
           refused(code) == reqs'[s].pc = "done" /\ reqs'[s].resp = code
       IN /\ same
          /\ reqs[s].pc = "idle" =>
               IF UserRole(u) # "freelancer" THEN refused(Forbidden)
               ELSE IF t \notin DOMAIN tasks THEN refused(NotFound)
               ELSE IF tasks[t].status # "open" THEN refused(InvalidState)
               ELSE IF tasks[t].clientId = u THEN refused(InvalidState)
               ELSE reqs'[s].pc = "findFirst"
          /\ reqs[s].pc = "findFirst" =>
               IF ExistingBid(t, u) THEN refused(Conflict) ELSE reqs'[s].pc = "create"]_vars

\* the task's own client was refused as not being a freelancer, and a
\* freelancer with a bid on the open task was refused with Conflict
C14_Witness ==
  \E s1, s2 \in Slots :
    /\ reqs[s1].op = "submitBid" /\ reqs[s1].pc = "done" /\ reqs[s1].resp = Forbidden
    /\ reqs[s1].task \in DOMAIN tasks /\ tasks[reqs[s1].task].clientId = reqs[s1].caller
    /\ reqs[s2].op = "submitBid" /\ reqs[s2].pc = "done" /\ reqs[s2].resp = Conflict
    /\ tasks[reqs[s2].task].status = "open"

\* ---------------------------------------------------------------- C15
\* C15: acceptBid fails with NotFound when the bid does not exist, with
\* Forbidden when the caller is not the client of the bid's task, and with
\* InvalidState when the caller is the client but the task is not open; a
\* refused acceptBid changes no bid and no task, creates no notification and
\* emits nothing, neither when it is refused nor later.
C15_AcceptBidRefusals ==
  [][\A s \in Slots :
       LET b == reqs'[s].id
           u == reqs'[s].caller
           same == /\ bids' = bids /\ tasks' = tasks
                   /\ notifications' = notifications /\ emitted' = emitted
           refused(code) == reqs'[s].pc = "done" /\ reqs'[s].resp = code /\ same
       IN /\ Starts(s, "acceptBid") =>
               IF b \notin SeqIds(bids) THEN refused(NotFound)
               ELSE IF tasks[bids[b].taskId].clientId # u THEN refused(Forbidden)
               ELSE IF tasks[bids[b].taskId].status # "open" THEN refused(InvalidState)
               ELSE reqs'[s].pc = "tx" /\ same
          /\ (/\ reqs[s].op = "acceptBid" /\ reqs[s].pc = "done"
              /\ reqs'[s] # reqs[s]) => same]_vars

\* one acceptBid was refused as not by the task's client, another by the
\* client because the task is already assigned
C15_Witness ==
  \E s1, s2 \in Slots :
    /\ reqs[s1].op = "acceptBid" /\ reqs[s1].pc = "done" /\ reqs[s1].resp = Forbidden
    /\ tasks[bids[reqs[s1].id].taskId].clientId # reqs[s1].caller
    /\ reqs[s2].op = "acceptBid" /\ reqs[s2].pc = "done" /\ reqs[s2].resp = InvalidState
    /\ tasks[bids[reqs[s2].id].taskId].clientId = reqs[s2].caller
    /\ tasks[bids[reqs[s2].id].taskId].status = "assigned"

\* ---------------------------------------------------------------- C16
\* slot s takes the step pc of a handler of op that it had started before
Continues(s, op, pc) == reqs[s].op = op /\ reqs[s].pc = pc /\ reqs'[s] # reqs[s]

\* C16: requestCompletion on milestone M goes ahead only for the freelancer
\* of the accepted bid of M's task and only when M is pending; every other
\* caller (the client, a rejected freelancer, anybody when the task has no
\* accepted bid) gets Forbidden and nothing changes.  When it goes ahead it
\* sets M to completed, creates one notification, for the task's client,
\* answers 200 and changes no task and no other milestone.
C16_RequestCompletion ==
  [][\A s \in Slots :
       LET m == reqs'[s].id
           t == milestones[m].taskId
           same == /\ milestones' = milestones /\ tasks' = tasks /\ bids' = bids
                   /\ notifications' = notifications
       IN /\ (Starts(s, "requestCompletion") /\ m \in SeqIds(milestones)) =>
               IF ~IsAssignedFreelancer(reqs'[s].caller, t)
                 THEN reqs'[s].pc = "done" /\ reqs'[s].resp = Forbidden /\ same
               ELSE IF milestones[m].status # "pending"
                 THEN reqs'[s].pc = "done" /\ reqs'[s].resp = InvalidState /\ same
               ELSE reqs'[s].pc = "update" /\ same
          /\ Continues(s, "requestCompletion", "update") =>
               /\ reqs'[s].pc = "notify"
               /\ milestones' = [milestones EXCEPT ![m].status = "completed"]
               /\ tasks' = tasks /\ bids' = bids /\ notifications' = notifications
          /\ Continues(s, "requestCompletion", "notify") =>
               /\ reqs'[s].pc = "emit"
               /\ notifications' = Append(notifications,
                                          [userId |-> tasks[t].clientId, kind |-> "review",
                                           task |-> t])
               /\ milestones' = milestones /\ tasks' = tasks /\ bids' = bids
          /\ Continues(s, "requestCompletion", "emit") =>
               reqs'[s].pc = "done" /\ reqs'[s].resp = OK /\ same]_vars

\* the hired freelancer's requestCompletion has answered 200 with the
\* milestone completed, and the task's client asking the same was refused
C16_Witness ==
  \E s1, s2 \in Slots :
    /\ reqs[s1].op = "requestCompletion" /\ reqs[s1].pc = "done" /\ reqs[s1].resp = OK
    /\ milestones[reqs[s1].id].status = "completed"
    /\ IsAssignedFreelancer(reqs[s1].caller, reqs[s1].task)
    /\ reqs[s2].op = "requestCompletion" /\ reqs[s2].pc = "done"
    /\ reqs[s2].resp = Forbidden
    /\ reqs[s2].caller = tasks[milestones[reqs[s2].id].taskId].clientId

\* requestCompletion refused on a task nobody is hired for
C16_NobodyHired ==
  \E s \in Slots :
    /\ reqs[s].op = "requestCompletion" /\ reqs[s].pc = "done" /\ reqs[s].resp = Forbidden
    /\ reqs[s].id \in SeqIds(milestones)
    /\ AcceptedBids(milestones[reqs[s].id].taskId) = {}
    /\ UserRole(reqs[s].caller) = "freelancer"

\* ---------------------------------------------------------------- C17
\* C17: a releasePayment by somebody who is not the task's client fails with
\* Forbidden and changes nothing.  The commit of a successful releasePayment
\* on milestone M sets M to paid and, in the same step, sets the task to
\* completed when the transaction counted no other milestone of the task
\* that is not paid, otherwise to in_progress when the task was read as
\* assigned, otherwise leaves it; when nothing has changed since the handler
\* read and counted (releases one after the other), that makes the task
\* completed exactly when all its milestones are paid after the commit, and
\* in_progress after the first of several releases.
C17_ReleaseRollup ==
  [][\A s \in Slots :
       /\ (/\ Starts(s, "releasePayment") /\ reqs'[s].id \in SeqIds(milestones)
           /\ tasks[milestones[reqs'[s].id].taskId].clientId # reqs'[s].caller) =>
             /\ reqs'[s].pc = "done" /\ reqs'[s].resp = Forbidden
             /\ milestones' = milestones /\ tasks' = tasks /\ notifications' = notifications
       /\ Continues(s, "releasePayment", "txTask") =>
            LET m == reqs[s].id
                t == reqs[s].task
                allPaidAfter == \A i \in SeqIds(milestones') :
                                  milestones'[i].taskId = t => milestones'[i].status = "paid"
            IN /\ milestones' = [milestones EXCEPT ![m].status = "paid"]
               /\ bids' = bids
               /\ tasks' = [tasks EXCEPT ![t].status =
                              IF reqs[s].cnt = 0 THEN "completed"
                              ELSE IF reqs[s].tstatus = "assigned" THEN "in_progress"
                              ELSE @]
               /\ (/\ reqs[s].cnt = RemainingMilestones(t, m)
                   /\ reqs[s].tstatus = tasks[t].status) =>
                     tasks'[t].status = IF allPaidAfter THEN "completed"
                                        ELSE IF tasks[t].status = "assigned" THEN "in_progress"
                                        ELSE tasks[t].status]_vars

\* two milestones, both paid, the task completed after having been
\* in_progress, and the last releasePayment has answered 200
C17_Witness ==
  \E s \in Slots :
    /\ reqs[s].op = "releasePayment" /\ reqs[s].pc = "done" /\ reqs[s].resp = OK
    /\ reqs[s].tstatus = "in_progress"
    /\ Len(milestones) = 2 /\ AllPaid(reqs[s].task)
    /\ tasks[reqs[s].task].status = "completed"

\* ---------------------------------------------------------------- C18
\* C18: createMilestone goes ahead only for a client-role caller who is the
\* task's client; anybody else is refused and nothing is inserted.  When it
\* goes ahead it appends exactly one milestone, pending, and changes no task
\* status, no existing milestone and no bid, whatever the task's status; it
\* creates a notification, for the freelancer of the task's accepted bid,
\* exactly when the task has an accepted bid, and answers 201.
C18_CreateMilestone ==
  [][\A s \in Slots :
       LET t == reqs'[s].task
           u == reqs'[s].caller
           same == /\ milestones' = milestones /\ tasks' = tasks /\ bids' = bids
                   /\ notifications' = notifications
       IN /\ Starts(s, "createMilestone") =>
               IF UserRole(u) # "client" \/ t \notin DOMAIN tasks \/ tasks[t].clientId # u
                 THEN reqs'[s].pc = "done" /\ reqs'[s].resp = Forbidden /\ same
                 ELSE reqs'[s].pc = "create" /\ same
          /\ Continues(s, "createMilestone", "create") =>
               /\ milestones' = Append(milestones, [taskId |-> t, status |-> "pending"])
               /\ tasks' = tasks /\ bids' = bids /\ notifications' = notifications
               /\ IF AcceptedBids(t) = {}
                    THEN reqs'[s].pc = "done" /\ reqs'[s].resp = Created
                    ELSE reqs'[s].pc = "notify"
          /\ Continues(s, "createMilestone", "notify") =>
               /\ reqs'[s].pc = "emit"
               /\ \E b \in AcceptedBids(t) :
                    notifications' = Append(notifications,
                                            [userId |-> bids[b].freelancerId,
                                             kind |-> "new_milestone", task |-> t])
               /\ milestones' = milestones /\ tasks' = tasks /\ bids' = bids
          /\ Continues(s, "createMilestone", "emit") =>
               reqs'[s].pc = "done" /\ reqs'[s].resp = Created /\ same]_vars

\* a milestone was added to a task that is already completed: the task is
\* still completed, the older milestone still paid, the new one pending and
\* the freelancer's notification is the newest row
C18_Witness ==
  \E s \in Slots :
    /\ reqs[s].op = "createMilestone" /\ reqs[s].pc = "done" /\ reqs[s].resp = Created
    /\ reqs[s].id = 2 /\ Len(milestones) = 2
    /\ milestones[1].status = "paid" /\ milestones[2].status = "pending"
    /\ tasks[reqs[s].task].status = "completed"
    /\ notifications[Len(notifications)].kind = "new_milestone"
    /\ IsAssignedFreelancer(notifications[Len(notifications)].userId, reqs[s].task)

\* a milestone was added to a task nobody is hired for, without notification
C18_NobodyHired ==
  \E s \in Slots :
    /\ reqs[s].op = "createMilestone" /\ reqs[s].pc = "done" /\ reqs[s].resp = Created
    /\ AcceptedBids(reqs[s].task) = {} /\ notifications = <<>>
    /\ Len(milestones) = 1

\* ---------------------------------------------------------------- C19
\* C19: the new_notification events of one user are pushed to the user's
\* private room in the order in which their Notification rows were created,
\* also when handlers interleave between creating a row and pushing it.
C19_PushInCreationOrder ==
  \A i, j \in SeqIds(emitted) :
    (/\ i < j
     /\ emitted[i].ev = "new_notification" /\ emitted[j].ev = "new_notification"
     /\ emitted[i].rooms = emitted[j].rooms) => emitted[i].nid < emitted[j].nid

\* ---------------------------------------------------------------- C20
\* the chat of InitHistory with two messages, as SpecChat reaches it
HistoryReached ==
  /\ messages = HistoryMessages(2) /\ emitted = HistoryEmitted(2)
  /\ sockets = <<>> /\ reqs = [s \in Slots |-> Idle]

\* C20: the load_messages of a join goes to the joining socket only and holds
\* the most recent N messages the task has then, oldest first, for some N
\* from the server's page size up to twice that: all of them when there are
\* at most N, the N newest when there are more.
C20_LoadsMostRecent ==
  [][\A s \in Slots : Continues(s, "join_task", "loadMessages") =>
       LET all == TaskMessages(reqs[s].task)
           load == emitted'[Len(emitted')]
           sent == load.ids
       IN /\ Len(emitted') = Len(emitted) + 1
          /\ load.ev = "load_messages" /\ load.rooms = {SidRoom(reqs[s].sock)}
          /\ \A i, j \in SeqIds(sent) : i < j => sent[i] < sent[j]
          /\ \E N \in HistoryTake..(2 * HistoryTake) :
               sent = IF Len(all) <= N THEN all
                      ELSE SubSeq(all, Len(all) - N + 1, Len(all))]_vars

\* ---------------------------------------------------------------- C21
\* the sockets that are in the room of task t
Members(t) == {c \in DOMAIN sockets : TaskRoom(t) \in sockets[c].rooms}

\* the step appends one entry to the emit log, of event ev
Emits(ev) ==
  /\ Len(emitted') = Len(emitted) + 1
  /\ SubSeq(emitted', 1, Len(emitted)) = emitted
  /\ emitted'[Len(emitted')].ev = ev

\* C21: an authorized send_message first inserts one Message (taskId T,
\* senderId the caller) and emits nothing in that step; only its next step
\* emits new_message, carrying that row, to every socket that is in T's room
\* then, the sender's socket among them; when the insert fails, the handler
\* emits an error and ends, and no new_message is ever emitted without a
\* handler that has inserted its row.
C21_PersistThenBroadcast ==
  [][/\ \A s \in Slots :
          /\ Continues(s, "send_message", "create") =>
               \/ /\ messages' = Append(messages, [taskId |-> reqs[s].task,
                                                   senderId |-> reqs[s].caller])
                  /\ emitted' = emitted
                  /\ reqs'[s].pc = "broadcast" /\ reqs'[s].id = Len(messages')
               \/ /\ messages' = messages
                  /\ Emits("error")
                  /\ reqs'[s].pc = "idle"
          /\ Continues(s, "send_message", "broadcast") =>
               LET sent == emitted'[Len(emitted')]
               IN /\ messages' = messages
                  /\ Emits("new_message")
                  /\ sent.nid = reqs[s].id
                  /\ messages[sent.nid] = [taskId |-> reqs[s].task, senderId |-> reqs[s].caller]
                  /\ sent.rcpt = Members(reqs[s].task)
                  /\ (reqs[s].sock \in Members(reqs[s].task) => reqs[s].sock \in sent.rcpt)
     /\ (Len(emitted') > Len(emitted) /\ emitted'[Len(emitted')].ev = "new_message") =>
          \E s \in Slots : Continues(s, "send_message", "broadcast")]_vars

\* a new_message has reached two sockets in the room, one of them a socket
\* of the user who sent it
C21_Witness ==
  \E k \in SeqIds(emitted) :
    /\ emitted[k].ev = "new_message"
    /\ Cardinality(emitted[k].rcpt) = 2
    /\ \E c \in emitted[k].rcpt : c \in DOMAIN sockets /\ sockets[c].user = emitted[k].user
    /\ \E c \in emitted[k].rcpt : c \in DOMAIN sockets /\ sockets[c].user # emitted[k].user

\* ---------------------------------------------------------------- C23
\* C23: typing on task T emits user_typing, with the sender's user id and
\* the flag, to every socket in T's room except the sending socket, and
\* changes no message, notification, task, bid or milestone.
C23_TypingToOthers ==
  [][\A c \in Conns, t \in ChatTasks, isTyping \in BOOLEAN :
       typing(c, t, isTyping) =>
         LET sent == emitted'[Len(emitted')]
         IN /\ Emits("user_typing")
            /\ sent.user = sockets[c].user
            /\ sent.data = (IF isTyping THEN "true" ELSE "false")
            /\ sent.rcpt = Members(t) \ {c}
            /\ messages' = messages /\ notifications' = notifications
            /\ tasks' = tasks /\ bids' = bids /\ milestones' = milestones
            /\ sockets' = sockets]_vars

\* the last emit is a user_typing that reached the other member of the room
\* and not the member who sent it
C23_Witness ==
  /\ emitted # <<>>
  /\ LET sent == emitted[Len(emitted)]
     IN /\ sent.ev = "user_typing"
        /\ sent.rcpt # {}
        /\ \E c \in Members(sent.task) \ sent.rcpt : sockets[c].user = sent.user

\* ---------------------------------------------------------------- C25
\* C25: a connection without a token or with an invalid one is refused with
\* an authentication error and gets no socket, so none of its events is
\* handled: every handler runs for a socket that was accepted.  A connection
\* with a valid token is put, as it connects, in the private room of its own
\* user and in no other room, and no socket is ever in the private room of
\* another user.
C25_Handshake ==
  /\ [](\A c \in DOMAIN sockets :
          {r \in sockets[c].rooms : r[1] = "user"} = {UserRoom(sockets[c].user)})
  /\ [][
       /\ \A c \in Conns, u \in Users, token \in {"valid", "invalid", "missing"} :
            connect(c, u, token) =>
              IF token = "valid"
                THEN /\ c \in DOMAIN sockets'
                     /\ sockets'[c] = [user |-> u, rooms |-> {UserRoom(u)}]
                     /\ emitted' = emitted
                ELSE /\ sockets' = sockets
                     /\ Emits("connect_error")
                     /\ emitted'[Len(emitted')].data = "Authentication error"
       /\ \A s \in Slots :
            (Starts(s, "join_task") \/ Starts(s, "send_message")) =>
               reqs'[s].sock \in DOMAIN sockets
       /\ (Len(emitted') > Len(emitted) /\ emitted'[Len(emitted')].ev = "user_typing") =>
            \E c \in DOMAIN sockets : emitted'[Len(emitted')].user = sockets[c].user
     ]_vars

\* one connection was refused and another accepted: it is in the private
\* room of its user and in no other room
C25_Witness ==
  /\ \E k \in SeqIds(emitted) : emitted[k].ev = "connect_error"
  /\ \E c \in DOMAIN sockets : sockets[c].rooms = {UserRoom(sockets[c].user)}

\* ---------------------------------------------------------------- C30
\* C30: a user_typing event reaches sockets in the room of task T only when
\* it was sent by a user who is authorized for T.
C30_TypingAuthorized ==
  \A k \in SeqIds(emitted) :
    (emitted[k].ev = "user_typing" /\ emitted[k].rcpt # {}) =>
       /\ emitted[k].task \in DOMAIN tasks
       /\ Authorized(emitted[k].user, emitted[k].task)

\* ---------------------------------------------------------------- C24
\* C24: when a socket that is in the room of task T sends leave_task for T,
\* it is out of that room after the step, so that later new_message and
\* user_typing events of T do not reach it; a disconnect takes the socket
\* out of all rooms; and neither changes a persisted row.
C24_LeaveLeavesRoom ==
  [][/\ \A s \in Slots :
          (Starts(s, "leave_task") /\ reqs'[s].sock \in Members(reqs'[s].task)) =>
             /\ NotInRoom(reqs'[s].sock, reqs'[s].task)
             /\ messages' = messages /\ notifications' = notifications
             /\ tasks' = tasks /\ bids' = bids /\ milestones' = milestones
     /\ \A c \in Conns :
          disconnect(c) =>
             /\ c \notin DOMAIN sockets'
             /\ messages' = messages /\ notifications' = notifications
             /\ tasks' = tasks /\ bids' = bids /\ milestones' = milestones]_vars

\* a new_message of task T has reached a socket after its leave_task for T
\* had arrived
C24_DeliveredAfterLeave ==
  \E s \in Slots :
    /\ reqs[s].op = "leave_task"
    /\ emitted # <<>>
    /\ emitted[Len(emitted)].ev = "new_message"
    /\ emitted[Len(emitted)].task = reqs[s].task
    /\ reqs[s].sock \in emitted[Len(emitted)].rcpt

\* ---------------------------------------------------------------- C28
\* slot s holds a releasePayment that passed its checks and has committed
Released(s) ==
  /\ reqs[s].op = "releasePayment" /\ reqs[s].task # "none"
  /\ reqs[s].pc \in ReleaseCommitted

\* C28: of two releasePayment calls for the same milestone at most one gets
\* past the status check and commits, so that the freelancer has at most
\* one 'payment released' notification for each milestone.
C28_OneReleasePerMilestone ==
  /\ \A s1, s2 \in Slots :
       (s1 # s2 /\ Released(s1) /\ Released(s2)) => reqs[s1].id # reqs[s2].id
  /\ Cardinality({n \in SeqIds(notifications) : notifications[n].kind = "payment_released"})
       <= Len(milestones)

\* ---------------------------------------------------------------- C26
\* the state InitRacing, as Spec reaches it
RacingReached ==
  /\ tasks = HiredTasks /\ bids = HiredBids
  /\ notifications = HiredNotifications /\ emitted = HiredEmitted
  /\ reqs = [s \in Slots |-> IF s = 2 THEN RacingAccept ELSE Idle]

\* the rank of a task status in the order open, assigned, in_progress, completed
StatusRank(st) ==
  CASE st = "open" -> 0
    [] st = "assigned" -> 1
    [] st = "in_progress" -> 2
    [] st = "completed" -> 3
    [] OTHER -> 4

\* C26: a task's status is changed only by the commit of an acceptBid (to
\* assigned) and by the commit of a releasePayment (to in_progress or to
\* completed), and it never moves backwards in the order open, assigned,
\* in_progress, completed.
C26_TaskStatusForward ==
  [][\A t \in DOMAIN tasks :
       /\ t \in DOMAIN tasks'
       /\ tasks'[t].status # tasks[t].status =>
            /\ StatusRank(tasks'[t].status) > StatusRank(tasks[t].status)
            /\ \E s \in Slots :
                 \/ AcceptTxStep(s) /\ tasks'[t].status = "assigned"
                 \/ /\ Continues(s, "releasePayment", "txTask")
                    /\ tasks'[t].status \in {"in_progress", "completed"}]_vars

\* ---------------------------------------------------------------- C29
\* C29: a milestone that is completed or paid belongs to a task with an
\* accepted bid, and a releasePayment that has passed its checks has read
\* the freelancer of an accepted bid of the task, so that its notification
\* step does not fail for want of a freelancer.
C29_CompletedHasFreelancer ==
  /\ \A m \in SeqIds(milestones) :
       milestones[m].status \in {"completed", "paid"} =>
          AcceptedBids(milestones[m].taskId) # {}
  /\ \A s \in Slots :
       (/\ reqs[s].op = "releasePayment"
        /\ reqs[s].pc \in {"txUpdate", "txCount", "txTask", "notify", "emit"}) =>
          \E b \in SeqIds(bids) : /\ bids[b].taskId = reqs[s].task
                                  /\ bids[b].freelancerId = reqs[s].peer

\* a releasePayment has committed and is about to notify the freelancer of
\* the task's accepted bid
C29_Witness ==
  \E s \in Slots :
    /\ reqs[s].op = "releasePayment" /\ reqs[s].pc = "notify"
    /\ milestones[reqs[s].id].status = "paid"
    /\ IsAssignedFreelancer(reqs[s].peer, reqs[s].task)

\* ---------------------------------------------------------------- C22
\* C22: send_message decides from the task's client and accepted bid as the
\* database has them at the send, whatever the rooms of the socket: a socket
\* whose user is not authorized then gets an error and no handler goes on to
\* persist, also when the socket is a member of the task's room; a socket
\* whose user is authorized goes on, also when it never joined; and a
\* Message is only ever inserted by a handler that passed this check.
C22_SendRechecks ==
  [][/\ \A s \in Slots, c \in Conns, t \in TaskIds :
          send_message(s, c, t) =>
             IF Authorized(sockets[c].user, t)
               THEN /\ reqs'[s].op = "send_message" /\ reqs'[s].pc = "create"
                    /\ emitted' = emitted /\ messages' = messages
               ELSE /\ Emits("error")
                    /\ emitted'[Len(emitted')].data = "Unauthorized to send messages to this task"
                    /\ emitted'[Len(emitted')].rooms = {SidRoom(c)}
                    /\ reqs' = reqs /\ messages' = messages
     /\ messages' # messages =>
          \E s \in Slots : Continues(s, "send_message", "create")]_vars

\* a socket that is still in the room of the task, of a user who is no
\* longer authorized for it, has just been refused a send_message
C22_Witness ==
  /\ emitted # <<>>
  /\ LET sent == emitted[Len(emitted)]
     IN /\ sent.data = "Unauthorized to send messages to this task"
        /\ \E c \in Members(sent.task) :
             /\ sent.rooms = {SidRoom(c)}
             /\ ~Authorized(sockets[c].user, sent.task)

\* ---------------------------------------------------------------- C27
\* C27: every socket in the room of task T belongs to a user who is
\* authorized for T now: T's client or the freelancer of T's accepted bid.
C27_MembersAuthorized ==
  \A c \in DOMAIN sockets, t \in DOMAIN tasks :
    TaskRoom(t) \in sockets[c].rooms => Authorized(sockets[c].user, t)

====
